---- MODULE Spec2Model ----
(***************************************************************************)
(* Model of "Streamlit Prueba/Streamlit.py": a Streamlit dashboard script  *)
(* that loads vendedores.csv once (st.cache_data), filters it by the       *)
(* regions chosen in a multiselect, groups it by salesperson and renders   *)
(* summary totals, charts, a per-salesperson detail and the full table.    *)
(*                                                                         *)
(* One state is what the page shows after one complete run of the script.  *)
(* The script is re-run from top to bottom on every widget change, so each *)
(* action is one whole run.  The data a run reads are the file on disk,    *)
(* the cached load_data result and the widget values.                      *)
(*                                                                         *)
(* Data domain: a cell of a name column is a string or missing (pandas     *)
(* NaN); every row has a region, a string, and both measures, integers     *)
(* (amounts in whole currency units, negative for returns).  Quotients     *)
(* are kept as exact fractions [num, den]; pandas computes them in         *)
(* floating point, which agrees with the exact value up to rounding.       *)
(***************************************************************************)
EXTENDS Integers, Sequences, FiniteSets, TLC

VARIABLES
    archivo,                \* the CSV file on disk
    df_ventas,              \* load_data's cached result (line 40)
    regiones_disponibles,   \* options of the region multiselect (line 60)
    region_seleccionada,    \* value of the region multiselect (line 61)
    df_filtrado,            \* line 70 / 72
    total_ventas,           \* line 91; 0 until a run assigns it
    total_unidades,         \* line 92; 0 until a run assigns it
    df_agrupado,            \* lines 105-115
    vendedores_disponibles, \* options of the salesperson selectbox (line 161)
    vendedor_seleccionado,  \* value of the salesperson selectbox (line 162)
    detalle,                \* lines 171-184: kpi_v_* and the table shown
    datos_completos,        \* the table shown at line 191
    mensajes,               \* st.error / st.warning / st.info calls of the run
    etapas,                 \* steps the run started, in order
    secciones,              \* report sections the run rendered completely
    estado,                 \* how the run ended
    evento,                 \* what triggered the run
    primera                 \* history: what the first run showed

vars == <<archivo, df_ventas, regiones_disponibles, region_seleccionada,
          df_filtrado, total_ventas, total_unidades, df_agrupado,
          vendedores_disponibles, vendedor_seleccionado, detalle,
          datos_completos, mensajes, etapas, secciones, estado, evento,
          primera>>

----------------------------------------------------------------------------
(* Bounds of the model *)

\* longest file, in data rows
MaxFilas == 2

\* how many of the five expected columns a file may lack
MaxFaltantes == 1

----------------------------------------------------------------------------
(* Column names, lines 24-25 and 51-54 *)

COLUMNA_REGION == "REGION"

COLUMNA_VENTAS == "VENTAS TOTALES"

COLUMNA_UNIDADES == "UNIDADES VENDIDAS"

COLUMNA_VENDEDOR == "Vendedor"

COLUMNA_PORCENTAJE == "Porcentaje Ventas"

\* the columns the script expects of the file, in file order
ColumnasCSV == <<"NOMBRE", "APELLIDO", "REGION", "VENTAS TOTALES", "UNIDADES VENDIDAS">>

----------------------------------------------------------------------------
(* Values *)

\* a missing cell (pandas NaN)
NaN == "NaN"

\* Python's None where a string is expected
PyNone == "None"

\* load_data's None, and a table a run never computed
NoneDF == [tipo |-> "None", columns |-> <<>>, rows |-> <<>>]

\* the cache before the first run
SinCargar == [tipo |-> "sin_cargar", columns |-> <<>>, rows |-> <<>>]

DataFrame(columns, rows) == [tipo |-> "DataFrame", columns |-> columns, rows |-> rows]

ArchivoInexistente == [existe |-> FALSE, columns |-> <<>>, rows |-> <<>>]

\* (first name, last name) of the rows of the files considered
Personas == {<<"Ana", "Li">>, <<"ana", "Li">>, <<NaN, "Li">>, <<"Ana", NaN>>}

Regiones == {"East", "West"}

\* (sale amount, units sold) of the rows of the files considered
Medidas == {<<-1, 1>>, <<0, 1>>, <<1, 2>>}

\* Python's order (sorted) on the region values of the domain
OrdenRegiones == <<"East", "West">>

\* Python's order (sorted) on the salesperson names of the domain:
\* upper case sorts before lower case
OrdenVendedores == <<"Ana Li", "ana Li">>

Rango(s) == {s[i] : i \in DOMAIN s}

\* one row of a file with the columns cols
FilaCSV(p, r, m, cols) ==
    [c \in cols |->
        CASE c = "NOMBRE" -> p[1]
          [] c = "APELLIDO" -> p[2]
          [] c = "REGION" -> r
          [] c = "VENTAS TOTALES" -> m[1]
          [] OTHER -> m[2]]

FilasCSV(cols) ==
    {FilaCSV(p, r, m, cols) : p \in Personas, r \in Regiones, m \in Medidas}

\* the column sets of the files considered
ColumnasPosibles ==
    {Rango(ColumnasCSV) \ falta :
        falta \in {S \in SUBSET Rango(ColumnasCSV) : Cardinality(S) <= MaxFaltantes}}

\* the file with the columns cols and the rows t
ArchivoCSV(cols, t) ==
    [existe |-> TRUE,
     columns |-> SelectSeq(ColumnasCSV, LAMBDA c : c \in cols),
     rows |-> t]

----------------------------------------------------------------------------
(* The pandas operations the script uses *)

\* 'c' in df.columns
TieneColumna(df, c) == c \in Rango(df.columns)

\* df[c] as the sequence of its cells; a missing column is a KeyError,
\* which the callers test with TieneColumna first
Serie(df, c) == [i \in DOMAIN df.rows |-> df.rows[i][c]]

\* read_csv reads a column with rows and no value at all as float64
DtypeFloat(serie) == Len(serie) > 0 /\ \A i \in DOMAIN serie : serie[i] = NaN

\* str + str cell by cell on an object column: a missing operand gives NaN
SumaTexto(a, b) == IF a = NaN \/ b = NaN THEN NaN ELSE a \o b

\* Series.sum() of an integer column
RECURSIVE Suma(_)
Suma(serie) == IF serie = <<>> THEN 0 ELSE Head(serie) + Suma(Tail(serie))

\* Series.unique(): the distinct cells in order of first appearance; all
\* missing cells count as one value
RECURSIVE Unicos(_)
Unicos(serie) ==
    IF serie = <<>> THEN <<>>
    ELSE LET antes == Unicos(SubSeq(serie, 1, Len(serie) - 1))
             x == serie[Len(serie)]
         IN  IF x \in Rango(antes) THEN antes ELSE Append(antes, x)

\* sorted(valores): raises TypeError when a NaN (a float) is compared with a
\* str, that is when NaN is among two or more values
OrdenFalla(valores) == NaN \in Rango(valores) /\ Len(valores) > 1

Ordenar(valores, orden) ==
    IF valores = <<NaN>> THEN <<NaN>>
    ELSE SelectSeq(orden, LAMBDA x : x \in Rango(valores))

\* sep.join(textos)
RECURSIVE Join(_, _)
Join(textos, sep) ==
    IF textos = <<>> THEN ""
    ELSE IF Len(textos) = 1 THEN textos[1]
    ELSE textos[1] \o sep \o Join(Tail(textos), sep)

\* a == b on cells: NaN equals nothing, itself included
IgualCelda(a, b) == a # NaN /\ b # NaN /\ a = b

\* df[columnas]: the projection on some columns
Proyectar(df, columnas) ==
    DataFrame(columnas,
              [i \in DOMAIN df.rows |-> [c \in Rango(columnas) |-> df.rows[i][c]]])

----------------------------------------------------------------------------
(* load_data, lines 16-38 *)

\* line 25: df['Vendedor'] = df['NOMBRE'] + ' ' + df['APELLIDO']
ConVendedor(df) ==
    DataFrame(Append(df.columns, COLUMNA_VENDEDOR),
              [i \in DOMAIN df.rows |->
                  [c \in DOMAIN df.rows[i] \cup {COLUMNA_VENDEDOR} |->
                      IF c = COLUMNA_VENDEDOR
                      THEN SumaTexto(SumaTexto(df.rows[i]["NOMBRE"], " "),
                                     df.rows[i]["APELLIDO"])
                      ELSE df.rows[i][c]]])

load_data(file) ==
    IF ~file.existe
    THEN [df |-> NoneDF,
          mensajes |-> <<"error: No se encontro el archivo", "info: asegurate de que el archivo este en la carpeta">>]
    ELSE LET df == DataFrame(file.columns, file.rows)
         IN  IF TieneColumna(df, "NOMBRE") /\ TieneColumna(df, "APELLIDO")
             THEN IF DtypeFloat(Serie(df, "NOMBRE"))
                  \* float64 + ' ' raises TypeError, caught at line 36
                  THEN [df |-> NoneDF, mensajes |-> <<"error: Ocurrio un error al cargar el archivo">>]
                  ELSE [df |-> ConVendedor(df), mensajes |-> <<>>]
             ELSE [df |-> NoneDF,
                   mensajes |-> <<"error: El archivo CSV debe tener las columnas 'NOMBRE' y 'APELLIDO'.">>]


----------------------------------------------------------------------------
(* The region filter, lines 59-79 *)

\* line 60: sorted(df_ventas[COLUMNA_REGION].unique())
RegionesDisponibles(df) == Ordenar(Unicos(Serie(df, COLUMNA_REGION)), OrdenRegiones)

\* lines 61-65: the multiselect returns its default, every option, until the
\* user has chosen; afterwards the user's choice
Multiselect(opciones, widget) ==
    IF widget.por_defecto THEN Rango(opciones) ELSE widget.valor \cap Rango(opciones)

\* variant of FiltrarRegion: an empty selection taken as "no filter"
FiltrarRegionVacioEsTodo(df, seleccion) ==
    IF seleccion = {}
    THEN df
    ELSE DataFrame(df.columns, SelectSeq(df.rows, LAMBDA r : r[COLUMNA_REGION] \in seleccion))

\* variant of FiltrarRegion: an incremental filter, which narrows the filtered
\* table of the run before instead of the loaded table
FiltrarRegionIncremental(df, seleccion) ==
    LET base == IF df_filtrado.tipo = "DataFrame" THEN df_filtrado ELSE df
    IN  DataFrame(base.columns, SelectSeq(base.rows, LAMBDA r : r[COLUMNA_REGION] \in seleccion))

\* lines 68-72
FiltrarRegion(df, seleccion) ==
    IF seleccion = {}
    THEN DataFrame(df.columns, <<>>)
    ELSE DataFrame(df.columns, SelectSeq(df.rows, LAMBDA r : r[COLUMNA_REGION] \in seleccion))

----------------------------------------------------------------------------
(* The aggregation, lines 105-115 *)

\* groupby(COLUMNA_VENDEDOR): the group keys, sorted; rows whose key is
\* missing belong to no group (dropna=True)
ClavesGrupo(df) ==
    SelectSeq(OrdenVendedores, LAMBDA k : k \in Rango(Serie(df, COLUMNA_VENDEDOR)))

\* str.lower() on the salesperson names of the domain
Minusculas(s) == IF s = "Ana Li" THEN "ana Li" ELSE s

\* variant of Grupo: names compared without regard to case
GrupoSinMayusculas(df, k) ==
    DataFrame(df.columns,
              SelectSeq(df.rows, LAMBDA r : IgualCelda(Minusculas(r[COLUMNA_VENDEDOR]), Minusculas(k))))

\* the rows of one group
Grupo(df, k) ==
    DataFrame(df.columns, SelectSeq(df.rows, LAMBDA r : IgualCelda(r[COLUMNA_VENDEDOR], k)))

\* lines 105-108: groupby(...).agg({UNIDADES: 'sum', VENTAS: 'sum'}).reset_index()
Agrupar(df) ==
    LET claves == ClavesGrupo(df)
    IN  DataFrame(<<COLUMNA_VENDEDOR, COLUMNA_UNIDADES, COLUMNA_VENTAS>>,
                  [i \in DOMAIN claves |->
                      [c \in {COLUMNA_VENDEDOR, COLUMNA_UNIDADES, COLUMNA_VENTAS} |->
                          CASE c = COLUMNA_VENDEDOR -> claves[i]
                            [] c = COLUMNA_UNIDADES -> Suma(Serie(Grupo(df, claves[i]), COLUMNA_UNIDADES))
                            [] OTHER -> Suma(Serie(Grupo(df, claves[i]), COLUMNA_VENTAS))]])

\* variant of TotalVentasFiltrado: the total taken from the units column
TotalDesdeUnidades(agr) == Suma(Serie(agr, COLUMNA_UNIDADES))

\* line 111
TotalVentasFiltrado(agr) == Suma(Serie(agr, COLUMNA_VENTAS))

\* lines 112-115: one share, as an exact fraction
Porcentaje(ventas, total) ==
    IF total > 0 THEN [num |-> ventas, den |-> total] ELSE [num |-> 0, den |-> 1]

\* lines 110-115: the 'Porcentaje Ventas' column
ConPorcentaje(agr) ==
    LET total_ventas_filtrado == TotalVentasFiltrado(agr)
    IN  DataFrame(Append(agr.columns, COLUMNA_PORCENTAJE),
                  [i \in DOMAIN agr.rows |->
                      [c \in DOMAIN agr.rows[i] \cup {COLUMNA_PORCENTAJE} |->
                          IF c = COLUMNA_PORCENTAJE
                          THEN Porcentaje(agr.rows[i][COLUMNA_VENTAS], total_ventas_filtrado)
                          ELSE agr.rows[i][c]]])

----------------------------------------------------------------------------
(* The salesperson detail, lines 161-184 *)

\* line 161, before sorting
VendedoresUnicos(df) == Unicos(Serie(df, COLUMNA_VENDEDOR))

\* lines 162-165: the selectbox keeps the value of the previous run while its
\* options are the same; with other options it is a new widget, at its first
\* option; without options it returns None
Selectbox(opciones, widget) ==
    IF opciones = <<>> THEN PyNone
    ELSE IF widget.opciones = opciones /\ widget.valor \in Rango(opciones)
    THEN widget.valor
    ELSE opciones[1]

\* line 167: truth of a selectbox value; NaN, a float, is true
Verdadero(v) == v # PyNone /\ v # ""

\* line 171
DfVendedor(df, v) ==
    DataFrame(df.columns, SelectSeq(df.rows, LAMBDA r : IgualCelda(r[COLUMNA_VENDEDOR], v)))

\* line 183
ColumnasAMostrar(df) ==
    SelectSeq(df.columns, LAMBDA c : c \notin {"NOMBRE", "APELLIDO", "Vendedor"})

\* variant of Detalle: the two totals summed over the whole filtered table
DetalleSobreFiltrado(df, v) ==
    LET df_vendedor == DfVendedor(df, v)
    IN  [mostrado |-> TRUE,
         vendedor |-> v,
         kpi_v_ventas |-> Suma(Serie(df, COLUMNA_VENTAS)),
         kpi_v_unidades |-> Suma(Serie(df, COLUMNA_UNIDADES)),
         kpi_v_region |-> Join(Unicos(Serie(df_vendedor, COLUMNA_REGION)), ", "),
         tabla |-> Proyectar(df_vendedor, ColumnasAMostrar(df_vendedor))]

\* lines 171-184
Detalle(df, v) ==
    LET df_vendedor == DfVendedor(df, v)
    IN  [mostrado |-> TRUE,
         vendedor |-> v,
         kpi_v_ventas |-> Suma(Serie(df_vendedor, COLUMNA_VENTAS)),
         kpi_v_unidades |-> Suma(Serie(df_vendedor, COLUMNA_UNIDADES)),
         kpi_v_region |-> Join(Unicos(Serie(df_vendedor, COLUMNA_REGION)), ", "),
         tabla |-> Proyectar(df_vendedor, ColumnasAMostrar(df_vendedor))]

\* no detail shown
SinDetalle ==
    [mostrado |-> FALSE, vendedor |-> PyNone, kpi_v_ventas |-> 0, kpi_v_unidades |-> 0,
     kpi_v_region |-> "", tabla |-> NoneDF]

\* variant of DatosCompletos: the name columns dropped from the full table too
DatosCompletosSinNombres(df) == Proyectar(df, ColumnasAMostrar(df))

\* line 191: st.dataframe(df_filtrado)
DatosCompletos(df) == df


----------------------------------------------------------------------------
(* One run of the script, lines 40-196 *)

\* df.empty
Vacio(df) == df.rows = <<>> \/ df.columns = <<>>

\* what a run has shown when it has only started
RunInicial(df, msgs) ==
    [df_ventas |-> df,
     regiones_disponibles |-> <<>>,
     region_seleccionada |-> {},
     df_filtrado |-> NoneDF,
     total_ventas |-> 0,
     total_unidades |-> 0,
     df_agrupado |-> NoneDF,
     vendedores_disponibles |-> <<>>,
     vendedor_seleccionado |-> PyNone,
     detalle |-> SinDetalle,
     datos_completos |-> NoneDF,
     mensajes |-> msgs,
     etapas |-> <<"load_data">>,
     secciones |-> <<>>,
     estado |-> "corriendo"]

\* lines 193-194: the KeyError handler formats e.name, which a KeyError does
\* not have: the handler raises AttributeError before st.error is called, and
\* nothing catches it
ManejarKeyError(r) == [r EXCEPT !.estado = "excepcion"]

\* lines 195-196
ManejarException(r) ==
    [r EXCEPT !.mensajes = Append(@, "error: Ocurrio un error inesperado al procesar los datos"),
              !.estado = "terminado"]

\* lines 188-191, and the end of the script
SeccionDatosCompletos(r) ==
    [r EXCEPT !.etapas = Append(@, "datos_completos"),
              !.datos_completos = DatosCompletos(r.df_filtrado),
              !.secciones = Append(@, "datos_completos"),
              !.estado = "terminado"]

\* lines 159-186
SeccionDetalle(r, widget_vendedor) ==
    LET df == r.df_filtrado
        r0 == [r EXCEPT !.etapas = Append(@, "detalle")]
        unicos == VendedoresUnicos(df)
    IN  IF OrdenFalla(unicos)
        THEN ManejarException(r0)
        ELSE LET opciones == Ordenar(unicos, OrdenVendedores)
                 v == Selectbox(opciones, widget_vendedor)
             IN  SeccionDatosCompletos(
                     [r0 EXCEPT !.vendedores_disponibles = opciones,
                                !.vendedor_seleccionado = v,
                                !.detalle = IF Verdadero(v) THEN Detalle(df, v) ELSE SinDetalle,
                                !.secciones = Append(@, "detalle")])

\* lines 102-156
SeccionGraficas(r, widget_vendedor) ==
    LET df == r.df_filtrado
        r0 == [r EXCEPT !.etapas = Append(@, "agrupado")]
    IN  IF ~TieneColumna(df, COLUMNA_VENDEDOR)
        THEN ManejarKeyError(r0)
        ELSE SeccionDetalle(
                 [r0 EXCEPT !.df_agrupado = ConPorcentaje(Agrupar(df)),
                            !.secciones = Append(@, "graficas")],
                 widget_vendedor)

\* lines 87-100: line 91 assigns total_ventas before line 92 looks up the
\* units column, so a run that dies at line 92 has already set total_ventas
SeccionResumen(r, widget_vendedor) ==
    LET df == r.df_filtrado
        r0 == [r EXCEPT !.etapas = Append(@, "resumen")]
    IN  IF ~TieneColumna(df, COLUMNA_VENTAS)
        THEN \* KeyError at line 91
             ManejarKeyError(r0)
        ELSE LET r1 == [r0 EXCEPT !.total_ventas = Suma(Serie(df, COLUMNA_VENTAS))]
             IN  IF ~TieneColumna(df, COLUMNA_UNIDADES)
                 THEN \* KeyError at line 92
                      ManejarKeyError(r1)
                 ELSE SeccionGraficas(
                          [r1 EXCEPT !.total_unidades = Suma(Serie(df, COLUMNA_UNIDADES)),
                                     !.secciones = Append(@, "resumen")],
                          widget_vendedor)

\* lines 59-86
EtapaFiltro(r, widget_region, widget_vendedor) ==
    LET df == r.df_ventas
        r0 == [r EXCEPT !.etapas = Append(@, "filtro")]
    IN  IF ~TieneColumna(df, COLUMNA_REGION)
        THEN \* lines 74-76
             [r0 EXCEPT !.mensajes = Append(@, "error: La columna 'REGION' no se encontro en el archivo CSV."),
                        !.estado = "detenido"]
        ELSE IF OrdenFalla(Unicos(Serie(df, COLUMNA_REGION)))
        THEN \* lines 77-79
             [r0 EXCEPT !.mensajes = Append(@, "error: Un error inesperado ocurrio con el filtro de region"),
                        !.estado = "detenido"]
        ELSE LET opciones == RegionesDisponibles(df)
                 seleccion == Multiselect(opciones, widget_region)
                 r1 == [r0 EXCEPT !.regiones_disponibles = opciones,
                                  !.region_seleccionada = seleccion,
                                  !.df_filtrado = FiltrarRegion(df, seleccion),
                                  !.mensajes = IF seleccion = {}
                                               THEN Append(@, "warning: Por favor, selecciona al menos una region.")
                                               ELSE @]
             IN  IF Vacio(r1.df_filtrado)
                 THEN \* lines 84-85
                      [r1 EXCEPT !.mensajes = Append(@, "warning: No hay datos para mostrar con los filtros seleccionados."),
                                 !.estado = "terminado"]
                 ELSE SeccionResumen(r1, widget_vendedor)

\* variant of NoCargado: the run goes on after a failed load
NoCargadoIgnorado(df) == FALSE

\* line 43: if df_ventas is None
NoCargado(df) == df.tipo = "None"

\* the whole script: st.cache_data calls load_data on the first run only and
\* afterwards returns the stored result, replaying the messages it showed
Script(file, cache, widget_region, widget_vendedor) ==
    LET carga == load_data(file)
        df == IF cache.tipo = "sin_cargar" THEN carga.df ELSE cache
        r == RunInicial(df, carga.mensajes)
    IN  IF NoCargado(df)
        THEN [r EXCEPT !.estado = "detenido"]
        ELSE EtapaFiltro(r, widget_region, widget_vendedor)

----------------------------------------------------------------------------
(* The state machine *)

WidgetRegionPorDefecto == [por_defecto |-> TRUE, valor |-> {}]

WidgetVendedorNuevo == [opciones |-> <<>>, valor |-> PyNone]

SinPrimera == [df_filtrado |-> NoneDF, df_agrupado |-> NoneDF]

Init ==
    /\ \/ archivo = ArchivoInexistente
       \/ \E cols \in ColumnasPosibles : \E n \in 0..MaxFilas :
              \E t \in [1..n -> FilasCSV(cols)] : archivo = ArchivoCSV(cols, t)
    /\ df_ventas = SinCargar
    /\ regiones_disponibles = <<>>
    /\ region_seleccionada = {}
    /\ df_filtrado = NoneDF
    /\ total_ventas = 0
    /\ total_unidades = 0
    /\ df_agrupado = NoneDF
    /\ vendedores_disponibles = <<>>
    /\ vendedor_seleccionado = PyNone
    /\ detalle = SinDetalle
    /\ datos_completos = NoneDF
    /\ mensajes = <<>>
    /\ etapas = <<>>
    /\ secciones = <<>>
    /\ estado = "sin_ejecutar"
    /\ evento = "ninguno"
    /\ primera = SinPrimera

\* the page after a run that ended as r
Mostrar(r, ev) ==
    /\ df_ventas' = r.df_ventas
    /\ regiones_disponibles' = r.regiones_disponibles
    /\ region_seleccionada' = r.region_seleccionada
    /\ df_filtrado' = r.df_filtrado
    /\ total_ventas' = r.total_ventas
    /\ total_unidades' = r.total_unidades
    /\ df_agrupado' = r.df_agrupado
    /\ vendedores_disponibles' = r.vendedores_disponibles
    /\ vendedor_seleccionado' = r.vendedor_seleccionado
    /\ detalle' = r.detalle
    /\ datos_completos' = r.datos_completos
    /\ mensajes' = r.mensajes
    /\ etapas' = r.etapas
    /\ secciones' = r.secciones
    /\ estado' = r.estado
    /\ evento' = ev
    /\ primera' = IF estado = "sin_ejecutar"
                  THEN [df_filtrado |-> r.df_filtrado, df_agrupado |-> r.df_agrupado]
                  ELSE primera
    /\ UNCHANGED archivo

\* the widgets as the previous run left them
WidgetRegionActual == [por_defecto |-> FALSE, valor |-> region_seleccionada]

WidgetVendedorActual == [opciones |-> vendedores_disponibles, valor |-> vendedor_seleccionado]

\* the first run of the process: empty cache, widgets at their defaults
PrimeraEjecucion ==
    /\ estado = "sin_ejecutar"
    /\ Mostrar(Script(archivo, df_ventas, WidgetRegionPorDefecto, WidgetVendedorNuevo), "inicio")

\* the user changes the region multiselect
CambiarRegion ==
    /\ estado # "sin_ejecutar"
    /\ \E R \in SUBSET Rango(regiones_disponibles) :
        /\ R # region_seleccionada
        /\ Mostrar(Script(archivo, df_ventas, [por_defecto |-> FALSE, valor |-> R], WidgetVendedorActual),
                   "region")

\* the user picks another salesperson in the selectbox
CambiarVendedor ==
    /\ estado # "sin_ejecutar"
    /\ \E v \in Rango(vendedores_disponibles) :
        /\ v # vendedor_seleccionado
        /\ Mostrar(Script(archivo, df_ventas, WidgetRegionActual,
                          [opciones |-> vendedores_disponibles, valor |-> v]),
                   "vendedor")

\* the user asks for a rerun: same widgets
Reejecutar ==
    /\ estado # "sin_ejecutar"
    /\ Mostrar(Script(archivo, df_ventas,
                      IF "filtro" \in Rango(etapas) THEN WidgetRegionActual ELSE WidgetRegionPorDefecto,
                      WidgetVendedorActual),
               "rerun")

\* a new browser session: widgets at their defaults, the cache kept
NuevaSesion ==
    /\ estado # "sin_ejecutar"
    /\ Mostrar(Script(archivo, df_ventas, WidgetRegionPorDefecto, WidgetVendedorNuevo), "sesion")

Next ==
    \/ PrimeraEjecucion
    \/ CambiarRegion
    \/ CambiarVendedor
    \/ Reejecutar
    \/ NuevaSesion

Spec == Init /\ [][Next]_vars


----------------------------------------------------------------------------
(* Vocabulary of the properties *)

Ejecutado == estado # "sin_ejecutar"

\* the run computed the filtered table
Filtrado == df_filtrado.tipo = "DataFrame"

\* the run computed the aggregate rows
Agrupado == df_agrupado.tipo = "DataFrame"

ColumnasArchivo == Rango(archivo.columns)

\* the indices of the rows of df whose region is in R
IndicesRegion(df, R) == {i \in DOMAIN df.rows : df.rows[i][COLUMNA_REGION] \in R}

\* the k-th smallest element of a set of indices
Kesimo(S, k) == CHOOSE i \in S : Cardinality({j \in S : j <= i}) = k

\* the sum of f over a finite set of indices
RECURSIVE SumaSobre(_, _)
SumaSobre(S, f) ==
    IF S = {} THEN 0
    ELSE LET i == CHOOSE j \in S : TRUE IN f[i] + SumaSobre(S \ {i}, f)

\* the indices of the rows of df that carry the entity name n
IndicesVendedor(df, n) == {i \in DOMAIN df.rows : df.rows[i][COLUMNA_VENDEDOR] = n}

\* the entity names that occur in df; a missing name is no entity name
NombresPresentes(df) == {df.rows[i][COLUMNA_VENDEDOR] : i \in DOMAIN df.rows} \ {NaN}

\* exact sum of a sequence of fractions
RECURSIVE SumaFracciones(_)
SumaFracciones(fs) ==
    IF fs = <<>> THEN [num |-> 0, den |-> 1]
    ELSE LET a == Head(fs)
             b == SumaFracciones(Tail(fs))
         IN  [num |-> a.num * b.den + b.num * a.den, den |-> a.den * b.den]

SumaPorcentajes == SumaFracciones(Serie(df_agrupado, COLUMNA_PORCENTAJE))

\* the grand total of the aggregate rows' sale amounts
GranTotal == SumaSobre(DOMAIN df_agrupado.rows, Serie(df_agrupado, COLUMNA_VENTAS))

\* a fraction equal to the quotient a / b, b # 0
EsCociente(f, a, b) == f.den # 0 /\ f.num * b = a * f.den

EsCero(f) == f.den # 0 /\ f.num = 0

MensajeColumnasNombre == "error: El archivo CSV debe tener las columnas 'NOMBRE' y 'APELLIDO'."

----------------------------------------------------------------------------
(* C1 *)

\* C1: when the file lacks the NOMBRE column or the APELLIDO column,
\* load_data shows the schema error and returns None, and the run stops right
\* after the load: it starts no filter, aggregation or report step, in the
\* first run and in every later one.
C1_SchemaErrorHalts ==
    (Ejecutado /\ archivo.existe /\ ~({"NOMBRE", "APELLIDO"} \subseteq ColumnasArchivo))
        => /\ df_ventas = NoneDF
           /\ mensajes = <<MensajeColumnasNombre>>
           /\ estado = "detenido"
           /\ etapas = <<"load_data">>
           /\ secciones = <<>>
           /\ ~Filtrado /\ ~Agrupado /\ ~detalle.mostrado
           /\ datos_completos = NoneDF

\* a rerun of a file with rows that lacks the last-name column
C1_Witness ==
    /\ evento = "rerun"
    /\ archivo.existe
    /\ "APELLIDO" \notin ColumnasArchivo
    /\ Len(archivo.rows) = 2
    /\ estado = "detenido"

----------------------------------------------------------------------------
(* C2 *)

\* C2: whenever the filter stage runs, the filtered table holds exactly the
\* rows of the loaded table whose region is in the selection, in their
\* original order and as often as they occur, under the same columns; with an
\* empty selection it is the empty table and the run ends normally.
C2_FilterIsSubsequence ==
    (Ejecutado /\ "filtro" \in Rango(etapas) /\ TieneColumna(df_ventas, COLUMNA_REGION))
        => LET idx == IndicesRegion(df_ventas, region_seleccionada)
           IN  /\ Filtrado
               /\ df_filtrado.columns = df_ventas.columns
               /\ Len(df_filtrado.rows) = Cardinality(idx)
               /\ \A k \in 1..Len(df_filtrado.rows) :
                      df_filtrado.rows[k] = df_ventas.rows[Kesimo(idx, k)]
               /\ (region_seleccionada = {}
                      => df_filtrado.rows = <<>> /\ estado = "terminado")

\* the user emptied the selection over a table of two equal rows
C2_Witness ==
    /\ evento = "region"
    /\ region_seleccionada = {}
    /\ Len(df_ventas.rows) = 2
    /\ df_ventas.rows[1] = df_ventas.rows[2]
    /\ Filtrado
    /\ df_filtrado.rows = <<>>

----------------------------------------------------------------------------
(* C3 *)

\* C3 as stated: for every non-empty filtered table the shares of the
\* aggregate rows sum to 1.  It is stated here for the tables in which every
\* record carries an entity name, where the filtered table is non-empty
\* exactly when there are aggregate rows.
C3_SharesSumToOne ==
    (Agrupado /\ ~Vacio(df_filtrado) /\ NaN \notin Rango(Serie(df_filtrado, COLUMNA_VENDEDOR)))
        => SumaPorcentajes.num = SumaPorcentajes.den

\* C3 amended: the shares sum to 1 whenever the grand total of the aggregate
\* rows' sale amounts is positive; when it is zero or negative (all-zero
\* sales, or no row that carries an entity name) every share is 0.
C3_SharesSumToOneIfPositive ==
    Agrupado
        => /\ SumaPorcentajes.den # 0
           /\ GranTotal > 0 => SumaPorcentajes.num = SumaPorcentajes.den
           /\ GranTotal <= 0 =>
                  \A i \in DOMAIN df_agrupado.rows :
                      EsCero(df_agrupado.rows[i][COLUMNA_PORCENTAJE])

\* two entities that share a positive grand total
C3_Witness ==
    /\ Agrupado
    /\ Len(df_agrupado.rows) = 2
    /\ GranTotal > 0
    /\ df_agrupado.rows[1][COLUMNA_VENTAS] = 1
    /\ df_agrupado.rows[2][COLUMNA_VENTAS] = 1

----------------------------------------------------------------------------
(* C4 *)

\* C4: the totals the summary computes over the filtered table equal the sums
\* of the aggregate rows' sale amounts and units, for every table, tables
\* with missing first or last names included.
C4_TotalsAgree ==
    Agrupado
        => /\ total_ventas = GranTotal
           /\ total_unidades =
                  SumaSobre(DOMAIN df_agrupado.rows, Serie(df_agrupado, COLUMNA_UNIDADES))

----------------------------------------------------------------------------
(* C5 *)

\* a report section of the run referred to a column the file lacks
FallaDeColumna ==
    /\ Ejecutado
    /\ "resumen" \in Rango(etapas)
    /\ ~({COLUMNA_VENTAS, COLUMNA_UNIDADES} \subseteq ColumnasArchivo)

\* C5: a missing-column failure in a report section is caught and shown as a
\* message without an uncaught exception, and the sections that do not use
\* the missing column (the full-table view uses none) are still rendered.
C5_FailureContained ==
    FallaDeColumna
        => /\ estado = "terminado"
           /\ \E i \in DOMAIN mensajes : mensajes[i] = "error: Una columna clave no se encontro."
           /\ "datos_completos" \in Rango(secciones)

----------------------------------------------------------------------------
(* C6 *)

ColumnasDeNombre == {"NOMBRE", "APELLIDO", "Vendedor"}

\* the table t is the rows idx of df, in order, under every column of df but
\* the three name columns
EsProyeccionSinNombres(t, df, idx) ==
    /\ t.tipo = "DataFrame"
    /\ Rango(t.columns) = Rango(df.columns) \ ColumnasDeNombre
    /\ Len(t.columns) = Cardinality(Rango(t.columns))
    /\ Len(t.rows) = Cardinality(idx)
    /\ \A k \in 1..Len(t.rows) :
           /\ DOMAIN t.rows[k] = Rango(t.columns)
           /\ \A c \in Rango(t.columns) : t.rows[k][c] = df.rows[Kesimo(idx, k)][c]

\* C6 as stated: the full-table view is the filtered table without the
\* first-name, last-name and entity-name columns, all rows kept.
C6_FullTableProjected ==
    "datos_completos" \in Rango(secciones)
        => EsProyeccionSinNombres(datos_completos, df_filtrado, DOMAIN df_filtrado.rows)

\* C6 amended: the full-table view is the filtered table unchanged, the three
\* name columns included; the table without the three name columns is the one
\* of the entity detail, which holds the selected entity's filtered rows.
C6_DetailTableProjected ==
    /\ "datos_completos" \in Rango(secciones) => datos_completos = df_filtrado
    /\ detalle.mostrado
           => EsProyeccionSinNombres(detalle.tabla, df_filtrado,
                                     IndicesVendedor(df_filtrado, vendedor_seleccionado) \
                                         IndicesVendedor(df_filtrado, NaN))

\* both tables shown, the detail with one of two filtered rows
C6_Witness ==
    /\ "datos_completos" \in Rango(secciones)
    /\ detalle.mostrado
    /\ Len(df_filtrado.rows) = 2
    /\ Len(detalle.tabla.rows) = 1
    /\ Len(datos_completos.columns) = 6
    /\ Len(detalle.tabla.columns) = 3


----------------------------------------------------------------------------
(* C7 *)

\* C7: the aggregate rows are one row for each distinct entity name (exact,
\* case-sensitive comparison) that occurs in the filtered table, whose units
\* and sale amount are the sums over all the filtered rows with that name;
\* every name that occurs has a row and every row is of a name that occurs.
C7_OneRowPerEntity ==
    Agrupado
        => /\ \A n \in NombresPresentes(df_filtrado) :
                  /\ Cardinality(IndicesVendedor(df_agrupado, n)) = 1
                  /\ \A i \in IndicesVendedor(df_agrupado, n) :
                         /\ df_agrupado.rows[i][COLUMNA_UNIDADES] =
                                SumaSobre(IndicesVendedor(df_filtrado, n),
                                          Serie(df_filtrado, COLUMNA_UNIDADES))
                         /\ df_agrupado.rows[i][COLUMNA_VENTAS] =
                                SumaSobre(IndicesVendedor(df_filtrado, n),
                                          Serie(df_filtrado, COLUMNA_VENTAS))
           /\ \A i \in DOMAIN df_agrupado.rows :
                  df_agrupado.rows[i][COLUMNA_VENDEDOR] \in NombresPresentes(df_filtrado)

\* two names that differ in case only, each with its own row
C7_Witness ==
    /\ Agrupado
    /\ NombresPresentes(df_filtrado) = {"Ana Li", "ana Li"}
    /\ Len(df_agrupado.rows) = 2
    /\ df_agrupado.rows[1][COLUMNA_VENDEDOR] = "Ana Li"
    /\ df_agrupado.rows[2][COLUMNA_VENDEDOR] = "ana Li"
    /\ df_agrupado.rows[1][COLUMNA_UNIDADES] # df_agrupado.rows[2][COLUMNA_UNIDADES]

----------------------------------------------------------------------------
(* C8 *)

\* C8: every share is the row's sale amount divided by the grand total of
\* the aggregate rows' sale amounts whenever the grand total is not zero, and
\* zero when it is zero.  Line 112 tests total_ventas_filtrado > 0, so a
\* negative grand total gives shares of zero where the quotient is not zero.
C8_ShareIsQuotient ==
    Agrupado
        => \A i \in DOMAIN df_agrupado.rows :
               LET f == df_agrupado.rows[i][COLUMNA_PORCENTAJE]
               IN  IF GranTotal = 0
                   THEN EsCero(f)
                   ELSE EsCociente(f, df_agrupado.rows[i][COLUMNA_VENTAS], GranTotal)

----------------------------------------------------------------------------
(* C9 *)

DetalleVacio(d) ==
    /\ d.mostrado
    /\ d.tabla.tipo = "DataFrame"
    /\ d.tabla.rows = <<>>
    /\ d.kpi_v_ventas = 0
    /\ d.kpi_v_unidades = 0
    /\ d.kpi_v_region = ""

\* the entity names of the loaded table, and the missing name
NombresConocidos == NombresPresentes(df_ventas) \cup {NaN}

\* C9: in every run that reaches the entity detail, the detail of an entity
\* without rows in the filtered table is an empty table with zero totals and
\* an empty region list: for the value the selectbox returned, and for every
\* other entity of the loaded table that the region filter removed; and the
\* run ends without an uncaught exception.
C9_StaleEntityEmptyDetail ==
    (Ejecutado /\ "detalle" \in Rango(etapas))
        => /\ estado = "terminado"
           /\ \A n \in NombresConocidos :
                  n \notin NombresPresentes(df_filtrado) => DetalleVacio(Detalle(df_filtrado, n))
           /\ (detalle.mostrado /\ vendedor_seleccionado \notin NombresPresentes(df_filtrado))
                  => DetalleVacio(detalle)

\* after a change of the region selection an entity of the table has no rows
\* left in the filtered table, whose sums are not zero
C9_Witness ==
    /\ evento = "region"
    /\ "detalle" \in Rango(secciones)
    /\ total_ventas # 0
    /\ \E n \in NombresPresentes(df_ventas) : n \notin NombresPresentes(df_filtrado)

----------------------------------------------------------------------------
(* C10 *)

\* the run showed the region multiselect
ConFiltro == "filtro" \in Rango(etapas) /\ Filtrado

\* C10: once loaded, the table never changes; a run under the same region
\* selection as the run before shows the same filtered table and aggregate
\* rows; and whatever was selected in between, a run under the selection of
\* the first run shows the filtered table and aggregate rows of the first
\* run.
C10_NoStateBetweenRuns ==
    [][ /\ df_ventas.tipo # "sin_cargar" => df_ventas' = df_ventas
        /\ (ConFiltro /\ ConFiltro' /\ region_seleccionada' = region_seleccionada)
               => (df_filtrado' = df_filtrado /\ df_agrupado' = df_agrupado)
        /\ (Ejecutado /\ ConFiltro' /\ region_seleccionada' = Rango(regiones_disponibles'))
               => (df_filtrado' = primera.df_filtrado /\ df_agrupado' = primera.df_agrupado)
      ]_vars

\* back at the selection of the first run after a narrower one
C10_Witness ==
    /\ evento = "region"
    /\ Len(regiones_disponibles) = 2
    /\ region_seleccionada = Rango(regiones_disponibles)
    /\ Len(df_filtrado.rows) = 2
    /\ Agrupado
    /\ df_filtrado = primera.df_filtrado


====
